---------------------------- MODULE Spec2Model ----------------------------
(***************************************************************************)
(* Customer-churn prediction service.                                      *)
(*                                                                         *)
(*   src/app.py            form handler  /predict                          *)
(*   src/app_corrected.py  form handler  /predict, JSON handler            *)
(*                         /api/predict                                    *)
(*   src/main.py           pipeline construction, training run, batch      *)
(*                         inference run                                   *)
(*                                                                         *)
(* A Python dict is a sequence of <<key, value>> pairs without repeated    *)
(* keys (insertion order is kept, as in Python).  Every submitted value is *)
(* a string.  Python's None is the token None.  A raised exception is a    *)
(* record [ok |-> FALSE, exc |-> class, msg |-> str(e)].                   *)
(* What a handler did with a request is a record: its response, the calls  *)
(* it made on the model, what it logged, and the statement through which   *)
(* it left (via).                                                          *)
(*                                                                         *)
(* Probabilities are fixed-point numbers: the integer p stands for         *)
(* p / ProbScale.  Decision scores are integers.                           *)
(***************************************************************************)
EXTENDS Integers, Sequences, FiniteSets, TLC

VARIABLES
    model,      \* the module-level handle set by joblib.load at import
    req,        \* the request being served: [kind, pairs]
    fault,      \* where an internal (non-ValueError) failure strikes this request
    out,        \* per handler: what it did with req (response, model calls, log)
    prob,       \* SpecTier: the probability handed to the rendering stage
    rendered,   \* SpecTier: the rendering stage's result for prob
    threads,    \* SpecConc: the requests in flight, each with its locals and position
    files,      \* SpecMain: the working directory of main.py
    run,        \* SpecMain: the run of main.py in progress
    hist        \* SpecMain: what the finished and current runs did

vars == <<model, req, fault, out, prob, rendered, threads, files, run, hist>>

None == "<None>"

-----------------------------------------------------------------------------
(* Bounds of the model *)

\* submissions leave out any subset of this many expected names (or all of them)
NumDroppable == 4
\* submissions present their keys in one of this many orders
NumOrders == 2
\* the fitted intercept ranges over -MaxIntercept .. MaxIntercept
MaxIntercept == 1
\* requests the server handles at the same time
NumThreads == 2
\* runs of main.py in a row
MaxRuns == 3

-----------------------------------------------------------------------------
(* Generic helpers *)

Range(s) == {s[i] : i \in 1..Len(s)}

RECURSIVE Join(_, _)
\* sep.join(s)
Join(sep, s) ==
    IF s = <<>> THEN ""
    ELSE IF Len(s) = 1 THEN s[1]
    ELSE s[1] \o sep \o Join(sep, Tail(s))

RECURSIVE SumSeq(_)
SumSeq(s) == IF s = <<>> THEN 0 ELSE s[1] + SumSeq(Tail(s))

Keys(d) == [i \in 1..Len(d) |-> d[i][1]]

HasKey(d, k) == \E i \in 1..Len(d) : d[i][1] = k

\* d[k] for a key that is present
Get(d, k) == d[CHOOSE i \in 1..Len(d) : d[i][1] = k][2]

\* d.pop(k, None): the value (or None) and the dict without the key
PopValue(d, k) == IF HasKey(d, k) THEN Get(d, k) ELSE None
PopRest(d, k) == SelectSeq(d, LAMBDA kv : kv[1] # k)

Digits == <<"0", "1", "2", "3", "4", "5", "6", "7", "8", "9">>

RECURSIVE IntStr(_)
\* str(n) for n >= 0
IntStr(n) == IF n < 10 THEN Digits[n + 1] ELSE IntStr(n \div 10) \o Digits[(n % 10) + 1]

-----------------------------------------------------------------------------
(* The expected columns *)

EXPECTED_COLUMNS ==
    << "gender", "SeniorCitizen", "Partner", "Dependents", "tenure",
       "PhoneService", "MultipleLines", "InternetService", "OnlineSecurity",
       "OnlineBackup", "DeviceProtection", "TechSupport", "StreamingTV",
       "StreamingMovies", "Contract", "PaperlessBilling", "PaymentMethod",
       "MonthlyCharges", "TotalCharges" >>

\* the columns main.py converts with pd.to_numeric before fitting
true_num_cols == <<"SeniorCitizen", "tenure", "MonthlyCharges", "TotalCharges">>

\* select_dtypes(include=["int64", "float64"]) / (include=["object"]) of the features
num_attribs == SelectSeq(EXPECTED_COLUMNS, LAMBDA c : c \in Range(true_num_cols))
cat_attribs == SelectSeq(EXPECTED_COLUMNS, LAMBDA c : c \notin Range(true_num_cols))


-----------------------------------------------------------------------------
(* The fitted pipeline: build_pipeline + LogisticRegression, after fit.       *)
(* Numeric values are in hundredths.  The statistics and vocabulary learned   *)
(* from the training split are parameters of the artifact.                    *)

ProbScale == 10000

\* astype(float) of one cell of an object column: the strings submissions use
ParseFloat(s) ==
    CASE s = "0"     -> [ok |-> TRUE, nan |-> FALSE, val |-> 0]
      [] s = "1"     -> [ok |-> TRUE, nan |-> FALSE, val |-> 100]
      [] s = "29"    -> [ok |-> TRUE, nan |-> FALSE, val |-> 2900]
      [] s = "70.35" -> [ok |-> TRUE, nan |-> FALSE, val |-> 7035]
      [] s = "nan"   -> [ok |-> TRUE, nan |-> TRUE, val |-> 0]
      [] OTHER       -> [ok |-> FALSE, exc |-> "ValueError",
                         msg |-> "could not convert string to float: '" \o s \o "'"]

\* SimpleImputer(strategy="median").statistics_
median(a) ==
    CASE a = "SeniorCitizen"  -> 0
      [] a = "tenure"         -> 2900
      [] a = "MonthlyCharges" -> 7035
      [] a = "TotalCharges"   -> 139700

\* StandardScaler().mean_ and .scale_
mean(a) ==
    CASE a = "SeniorCitizen"  -> 16
      [] a = "tenure"         -> 3200
      [] a = "MonthlyCharges" -> 6500
      [] a = "TotalCharges"   -> 228000

scale(a) ==
    CASE a = "SeniorCitizen"  -> 37
      [] a = "tenure"         -> 2400
      [] a = "MonthlyCharges" -> 3000
      [] a = "TotalCharges"   -> 226000

\* OneHotEncoder().categories_: the sorted values seen in the training split
categories(a) ==
    CASE a = "gender"   -> <<"Female", "Male">>
      [] a = "Contract" -> <<"Month-to-month", "One year", "Two year">>
      [] OTHER          -> <<"No", "Yes">>

\* SimpleImputer(strategy="median") over the numeric columns: the conversion
\* to float raises ValueError on a cell that is no number; NaN becomes the median
NumImpute(X, a) ==
    LET c == ParseFloat(Get(X, a)) IN
    IF ~c.ok
    THEN [ok |-> FALSE, exc |-> "ValueError",
          msg |-> "Cannot use median strategy with non-numeric data:\n" \o c.msg]
    ELSE [ok |-> TRUE, val |-> IF c.nan THEN median(a) ELSE c.val]

\* StandardScaler: (x - mean_) / scale_
NumScale(a, x) == (x - mean(a)) \div scale(a)

\* handle_unknown="error": a value outside categories_ raises
OneHotStrict(a, v) ==
    IF v \in Range(categories(a))
    THEN [ok |-> TRUE,
          val |-> [j \in 1..(Len(categories(a)) - 1) |->
                      IF v = categories(a)[j + 1] THEN 1 ELSE 0]]
    ELSE [ok |-> FALSE, exc |-> "ValueError",
          msg |-> "Found unknown categories ['" \o v \o "'] in column " \o a
                  \o " during transform"]

\* OneHotEncoder(handle_unknown="ignore", drop="first"): one dummy column per
\* learned category but the first; a value outside categories_ sets none
OneHot(a, v) ==
    [ok |-> TRUE,
     val |-> [j \in 1..(Len(categories(a)) - 1) |->
                 IF v = categories(a)[j + 1] THEN 1 ELSE 0]]

\* ColumnTransformer([("num", ...), ("cat", ...)]).transform(X)
Transform(X) ==
    LET num == [i \in 1..Len(num_attribs) |-> NumImpute(X, num_attribs[i])]
        cat == [i \in 1..Len(cat_attribs) |-> OneHot(cat_attribs[i], Get(X, cat_attribs[i]))]
        badnum == {i \in 1..Len(num_attribs) : ~num[i].ok}
        badcat == {i \in 1..Len(cat_attribs) : ~cat[i].ok}
    IN  IF badnum # {}
        THEN num[CHOOSE i \in badnum : \A j \in badnum : i <= j]
        ELSE IF badcat # {}
        THEN cat[CHOOSE i \in badcat : \A j \in badcat : i <= j]
        ELSE [ok |-> TRUE,
              num |-> [i \in 1..Len(num_attribs) |-> NumScale(num_attribs[i], num[i].val)],
              cat |-> [i \in 1..Len(cat_attribs) |-> cat[i].val]]

\* LogisticRegression().coef_ for a numeric column and for the dummy columns
coef_num(a) ==
    CASE a = "SeniorCitizen"  -> 1
      [] a = "tenure"         -> 0 - 2
      [] a = "MonthlyCharges" -> 1
      [] a = "TotalCharges"   -> 1

coef_cat(a, j) ==
    CASE a = "Contract" -> 0 - j
      [] a = "PaperlessBilling" -> 1
      [] a = "TechSupport" -> 0 - 1
      [] a = "OnlineSecurity" -> 0 - 1
      [] OTHER -> 0

\* LogisticRegression.decision_function on the transformed row
decision_function(m, T) ==
    m.intercept
    + SumSeq([i \in 1..Len(num_attribs) |-> coef_num(num_attribs[i]) * T.num[i]])
    + SumSeq([i \in 1..Len(cat_attribs) |->
                SumSeq([j \in 1..Len(T.cat[i]) |-> coef_cat(cat_attribs[i], j) * T.cat[i][j]])])

\* the logistic function, rounded to the nearest 1/ProbScale; it saturates
\* at 0 and 1 as the floating-point one does
RECURSIVE Pow2(_)
Pow2(n) == IF n = 0 THEN 1 ELSE 2 * Pow2(n - 1)

RECURSIVE Expit(_)
Expit(s) ==
    IF s < 0 THEN ProbScale - Expit(0 - s)
    ELSE IF s > 15 THEN ProbScale
    ELSE (2 * ProbScale * Pow2(s) + (Pow2(s) + 1)) \div (2 * (Pow2(s) + 1))

\* an internal failure of the call named by the request's fault
Internal(op) == [ok |-> FALSE, exc |-> "RuntimeError", msg |-> op \o " failed"]

PredictInverted(m, X, f) ==
    IF f = "predict" THEN Internal("predict")
    ELSE LET T == Transform(X) IN
         IF ~T.ok THEN T
         ELSE [ok |-> TRUE, val |-> IF decision_function(m, T) < 0 THEN 1 ELSE 0]

\* model.predict(X)[0]: class 1 when the decision score is positive
Predict(m, X, f) ==
    IF f = "predict" THEN Internal("predict")
    ELSE LET T == Transform(X) IN
         IF ~T.ok THEN T
         ELSE [ok |-> TRUE, val |-> IF decision_function(m, T) > 0 THEN 1 ELSE 0]

\* model.predict_proba(X)[0][1]
PredictProba(m, X, f) ==
    IF f = "predict_proba" THEN Internal("predict_proba")
    ELSE LET T == Transform(X) IN
         IF ~T.ok THEN T
         ELSE [ok |-> TRUE, val |-> Expit(decision_function(m, T))]

\* the artifact main.py fits and dumps
Artifact(b) == [intercept |-> b]

Artifacts == {Artifact(b) : b \in (0 - MaxIntercept)..MaxIntercept}

-----------------------------------------------------------------------------
(* The stages the three handlers share *)

missing_columns_first(columns) ==
    LET all == SelectSeq(EXPECTED_COLUMNS, LAMBDA col : col \notin Range(columns))
    IN  IF all = <<>> THEN <<>> ELSE <<all[1]>>

\* [col for col in EXPECTED_COLUMNS if col not in input_df.columns]
missing_columns(columns) ==
    SelectSeq(EXPECTED_COLUMNS, LAMBDA col : col \notin Range(columns))

SelectSubmitted(data) ==
    SelectSeq(data, LAMBDA kv : kv[1] \in Range(EXPECTED_COLUMNS))

\* input_df[EXPECTED_COLUMNS]: the expected columns, in the expected order
SelectExpected(data) ==
    [i \in 1..Len(EXPECTED_COLUMNS) |-> <<EXPECTED_COLUMNS[i], Get(data, EXPECTED_COLUMNS[i])>>]

\* raise ValueError(f"Missing required columns: {', '.join(missing_columns)}")
MissingError(missing) ==
    [ok |-> FALSE, exc |-> "ValueError",
     msg |-> "Missing required columns: " \o Join(", ", missing)]

\* "Yes" if prediction == 1 else "No"
churn_label(prediction) == IF prediction = 1 THEN "Yes" ELSE "No"

\* f"{x:.2f}%" of a percentage x given in 1/ProbScale of a percent
Format2f(x) ==
    LET unit == ProbScale \div 100
        cents == (2 * x + unit) \div (2 * unit)
    IN  IntStr(cents \div 100) \o "." \o Digits[((cents \div 10) % 10) + 1]
        \o Digits[(cents % 10) + 1] \o "%"

RiskLevelInclusive(prob_percentage) ==
    IF prob_percentage <= 30 * ProbScale THEN [level |-> "low", message |-> "VERY LOW RISK"]
    ELSE IF prob_percentage <= 50 * ProbScale THEN [level |-> "medium", message |-> "MEDIUM RISK"]
    ELSE IF prob_percentage <= 70 * ProbScale THEN [level |-> "high", message |-> "HIGH RISK"]
    ELSE [level |-> "very-high", message |-> "VERY HIGH RISK"]

\* the if/elif chain of app.py on prob_percentage
RiskLevel(prob_percentage) ==
    IF prob_percentage < 30 * ProbScale THEN [level |-> "low", message |-> "VERY LOW RISK"]
    ELSE IF prob_percentage < 50 * ProbScale THEN [level |-> "medium", message |-> "MEDIUM RISK"]
    ELSE IF prob_percentage < 70 * ProbScale THEN [level |-> "high", message |-> "HIGH RISK"]
    ELSE [level |-> "very-high", message |-> "VERY HIGH RISK"]

\* app.logger.error(f"...: {traceback.format_exc()}")
LogEntry(prefix, e) == [level |-> "error", text |-> prefix, traceback |-> e]

Page(ctx) == [status |-> 200, template |-> "predict.html", ctx |-> ctx]

-----------------------------------------------------------------------------
(* src/app.py: predict *)

\* lines 66-91: label, percentage, risk tier and the rendered result
Render_app(prediction, probability, customer_id, data) ==
    LET prob_percentage == probability * 100
        risk == RiskLevel(prob_percentage)
    IN  Page([churn |-> churn_label(prediction),
              probability |-> Format2f(prob_percentage),
              prob_percentage |-> prob_percentage,
              risk_level |-> risk.level,
              risk_message |-> risk.message,
              customer_id |-> customer_id,
              data |-> data,
              success |-> TRUE])

\* lines 93-106: the two except clauses
Except_app(e, calls) ==
    IF e.exc = "ValueError"
    THEN [resp |-> Page([error |-> "Input Error: " \o e.msg, data |-> <<>>, success |-> FALSE]),
          calls |-> calls, log |-> <<>>, via |-> "except ValueError"]
    ELSE [resp |-> Page([error |-> "Error: " \o e.msg, data |-> <<>>, success |-> FALSE]),
          calls |-> calls, log |-> <<LogEntry("Prediction failed: ", e)>>, via |-> "except Exception"]

predict_app(m, form, f) ==
    LET customer_id == PopValue(form, "customerID")
        data == PopRest(form, "customerID")
        missing == missing_columns(Keys(data))
    IN  IF missing # <<>>
        THEN Except_app(MissingError(missing), <<>>)
        ELSE
        LET input_df == SelectExpected(data)
            c1 == <<[op |-> "predict", X |-> input_df]>>
            prediction == Predict(m, input_df, f)
        IN  IF ~prediction.ok THEN Except_app(prediction, c1)
            ELSE
            LET c2 == Append(c1, [op |-> "predict_proba", X |-> input_df])
                probability == PredictProba(m, input_df, f)
            IN  IF ~probability.ok THEN Except_app(probability, c2)
                ELSE [resp |-> Render_app(prediction.val, probability.val, customer_id, data),
                      calls |-> c2, log |-> <<>>, via |-> "return"]

-----------------------------------------------------------------------------
(* src/app_corrected.py: predict *)

Except_corrected(e, calls) ==
    IF e.exc = "ValueError"
    THEN [resp |-> Page([error |-> "Input Error: " \o e.msg, data |-> <<>>, success |-> FALSE]),
          calls |-> calls, log |-> <<>>, via |-> "except ValueError"]
    ELSE [resp |-> Page([error |-> "Prediction Error: " \o e.msg, data |-> <<>>,
                         success |-> FALSE]),
          calls |-> calls, log |-> <<LogEntry("Prediction failed: ", e)>>, via |-> "except Exception"]

\* lines 58-65
Render_corrected(prediction, probability, customer_id, data) ==
    Page([churn |-> churn_label(prediction),
          probability |-> Format2f(probability * 100),
          customer_id |-> customer_id,
          data |-> data,
          success |-> TRUE])

predict_corrected(m, form, f) ==
    LET customer_id == PopValue(form, "customerID")
        data == PopRest(form, "customerID")
        missing == missing_columns(Keys(data))
    IN  IF missing # <<>>
        THEN Except_corrected(MissingError(missing), <<>>)
        ELSE
        LET input_df == SelectExpected(data)
            c1 == <<[op |-> "predict", X |-> input_df]>>
            prediction == Predict(m, input_df, f)
        IN  IF ~prediction.ok THEN Except_corrected(prediction, c1)
            ELSE
            LET c2 == Append(c1, [op |-> "predict_proba", X |-> input_df])
                probability == PredictProba(m, input_df, f)
            IN  IF ~probability.ok THEN Except_corrected(probability, c2)
                ELSE [resp |-> Render_corrected(prediction.val, probability.val,
                                                customer_id, data),
                      calls |-> c2, log |-> <<>>, via |-> "return"]

-----------------------------------------------------------------------------
(* src/app_corrected.py: api_predict *)

\* request.get_json() followed by json_data.pop('customerID', None): a body that
\* is no JSON raises in get_json; a body that is JSON but no object has no
\* dict.pop
GetJson(r) ==
    CASE r.kind = "record"  -> [ok |-> TRUE, val |-> r.pairs]
      [] r.kind = "invalid" -> [ok |-> FALSE, exc |-> "BadRequest",
                                msg |-> "400 Bad Request: Failed to decode JSON object"]
      [] r.kind = "null"    -> [ok |-> FALSE, exc |-> "AttributeError",
                                msg |-> "'NoneType' object has no attribute 'pop'"]
      [] r.kind = "array"   -> [ok |-> FALSE, exc |-> "TypeError",
                                msg |-> "pop expected at most 1 argument, got 2"]

ApiMissingOk(missing) ==
    [status |-> 200,
     json |-> [error |-> "Missing columns: " \o Join(", ", missing), success |-> FALSE]]

\* lines 97-101
ApiMissing(missing) ==
    [status |-> 400,
     json |-> [error |-> "Missing columns: " \o Join(", ", missing), success |-> FALSE]]

\* lines 117-122
Except_api(e, calls) ==
    [resp |-> [status |-> 500, json |-> [error |-> e.msg, success |-> FALSE]],
     calls |-> calls, log |-> <<LogEntry("API prediction failed: ", e)>>,
     via |-> "except Exception"]

\* lines 109-115
Render_api(prediction, probability, customer_id) ==
    [status |-> 200,
     json |-> [success |-> TRUE,
               customer_id |-> customer_id,
               churn_prediction |-> churn_label(prediction),
               churn_probability |-> probability,
               confidence |-> Format2f(probability * 100)]]

api_predict(m, r, f) ==
    LET json_data == GetJson(r) IN
    IF ~json_data.ok THEN Except_api(json_data, <<>>)
    ELSE
    LET customer_id == PopValue(json_data.val, "customerID")
        data == PopRest(json_data.val, "customerID")
        missing == missing_columns(Keys(data))
    IN  IF missing # <<>>
        THEN [resp |-> ApiMissing(missing), calls |-> <<>>, log |-> <<>>, via |-> "return 400"]
        ELSE
        LET input_df == SelectExpected(data)
            c1 == <<[op |-> "predict", X |-> input_df]>>
            prediction == Predict(m, input_df, f)
        IN  IF ~prediction.ok THEN Except_api(prediction, c1)
            ELSE
            LET c2 == Append(c1, [op |-> "predict_proba", X |-> input_df])
                probability == PredictProba(m, input_df, f)
            IN  IF ~probability.ok THEN Except_api(probability, c2)
                ELSE [resp |-> Render_api(prediction.val, probability.val, customer_id),
                      calls |-> c2, log |-> <<>>, via |-> "return"]

-----------------------------------------------------------------------------
(* Submissions *)

\* the record of the end-to-end scenario: tenure=1, both charges 70.35,
\* categorical fields at their defaults
BaseValue(col) ==
    CASE col = "SeniorCitizen"  -> "0"
      [] col = "tenure"         -> "1"
      [] col = "MonthlyCharges" -> "70.35"
      [] col = "TotalCharges"   -> "70.35"
      [] col = "gender"         -> "Female"
      [] col = "Contract"       -> "Month-to-month"
      [] OTHER                  -> "No"

NumericStrings == {"0", "1", "29", "70.35", "nan", "abc", ""}

Unseen == "Unknown"

\* the k-th order in which a client sends the keys: as listed, or reversed
\* and rotated
Permute(s, k) ==
    IF k = 0 THEN s
    ELSE [i \in 1..Len(s) |-> s[((Len(s) - i + k - 1) % Len(s)) + 1]]

Droppable == {EXPECTED_COLUMNS[((6 * (j - 1)) % Len(EXPECTED_COLUMNS)) + 1] : j \in 1..NumDroppable}

\* a form or JSON object: the expected names but `dropped`, valued by `val`,
\* with or without customerID and a key the service does not know, in order k
Record(dropped, val, cid, extra, k) ==
    LET cols == SelectSeq(EXPECTED_COLUMNS, LAMBDA c : c \notin dropped)
        body == [i \in 1..Len(cols) |-> <<cols[i], val[cols[i]]>>]
        withId == IF cid THEN <<<<"customerID", "CUST001">>>> \o body ELSE body
        all == IF extra THEN withId \o <<<<"promo", "x">>>> ELSE withId
    IN  [kind |-> "record", pairs |-> Permute(all, k)]

Base == [c \in Range(EXPECTED_COLUMNS) |-> BaseValue(c)]

\* submissions that differ in structure
Structural ==
    {Record(d, Base, cid, extra, k) :
        d \in SUBSET Droppable, cid \in BOOLEAN, extra \in BOOLEAN, k \in 0..(NumOrders - 1)}
    \cup {Record(Range(EXPECTED_COLUMNS), Base, cid, FALSE, 0) : cid \in BOOLEAN}
    \cup {[kind |-> knd, pairs |-> <<>>] : knd \in {"invalid", "null", "array"}}

\* complete submissions that differ in values: one numeric cell set freely,
\* one categorical cell set to a learned or an unseen value, or an unseen
\* categorical value beside a tenure that holds no number
Valued ==
    {Record({}, [Base EXCEPT ![n] = v], TRUE, FALSE, k) :
        n \in Range(num_attribs), v \in NumericStrings, k \in 0..(NumOrders - 1)}
    \cup
    UNION {
        {Record({}, [Base EXCEPT ![c] = w], TRUE, FALSE, k) :
            w \in Range(categories(c)) \cup {Unseen}, k \in 0..(NumOrders - 1)}
        \cup
        {Record({}, [Base EXCEPT !["tenure"] = v, ![c] = Unseen], TRUE, FALSE, 0) :
            v \in {"abc", ""}}
        : c \in Range(cat_attribs)}

\* the submissions during which a call on the model fails internally
Faulted ==
    {Record({}, Base, TRUE, FALSE, 0),
     Record({}, [Base EXCEPT !["gender"] = Unseen], FALSE, FALSE, 0)}

Submissions ==
    {[r |-> r, f |-> "none"] : r \in Structural \cup Valued}
    \cup {[r |-> r, f |-> f] : r \in Faulted, f \in {"predict", "predict_proba"}}

NoRequest == [kind |-> "idle", pairs |-> <<>>]

Handlers == {"app", "corrected", "api"}

\* the handlers a request of this kind can be routed to: a form post always
\* parses to a dict
Routes(r) ==
    CASE r.kind = "idle"   -> {}
      [] r.kind = "record" -> Handlers
      [] OTHER             -> {"api"}

-----------------------------------------------------------------------------
(* The service, one request at a time *)

IdleTier == prob = 0 /\ rendered = <<>>
IdleConc == threads = <<>>
IdleMain == files = {} /\ run = <<>> /\ hist = <<>>

\* after import: model.pkl is loaded, no request has arrived
Init ==
    /\ model \in Artifacts
    /\ req = NoRequest
    /\ fault = "none"
    /\ out = [h \in Handlers |-> <<>>]
    /\ IdleTier /\ IdleConc /\ IdleMain

\* a request arrives
Submit ==
    /\ req = NoRequest
    /\ \E s \in Submissions : req' = s.r /\ fault' = s.f
    /\ UNCHANGED <<model, out, prob, rendered, threads, files, run, hist>>

\* the responses are sent; the request and everything computed for it are gone
Reply ==
    /\ req # NoRequest
    /\ \A h \in Routes(req) : out[h] # <<>>
    /\ req' = NoRequest
    /\ fault' = "none"
    /\ out' = [h \in Handlers |-> <<>>]
    /\ UNCHANGED <<model, prob, rendered, threads, files, run, hist>>

ServeApp ==
    /\ "app" \in Routes(req) /\ out["app"] = <<>>
    /\ out' = [out EXCEPT !["app"] = <<predict_app(model, req.pairs, fault)>>]
    /\ UNCHANGED <<model, req, fault, prob, rendered, threads, files, run, hist>>

ServeCorrected ==
    /\ "corrected" \in Routes(req) /\ out["corrected"] = <<>>
    /\ out' = [out EXCEPT !["corrected"] = <<predict_corrected(model, req.pairs, fault)>>]
    /\ UNCHANGED <<model, req, fault, prob, rendered, threads, files, run, hist>>

ServeApi ==
    /\ "api" \in Routes(req) /\ out["api"] = <<>>
    /\ out' = [out EXCEPT !["api"] = <<api_predict(model, req, fault)>>]
    /\ UNCHANGED <<model, req, fault, prob, rendered, threads, files, run, hist>>

Next == Submit \/ Reply \/ ServeApp \/ ServeCorrected \/ ServeApi

Spec == Init /\ [][Next]_vars

-----------------------------------------------------------------------------
(* Properties of the service *)

Answered(h) == out[h] # <<>>
Did(h) == out[h][1]

\* the expected names the request lacks, and whether it is a record lacking some
Lacking == SelectSeq(EXPECTED_COLUMNS, LAMBDA c : ~HasKey(req.pairs, c))
Incomplete == req.kind = "record" /\ Lacking # <<>>
Complete == req.kind = "record" /\ Lacking = <<>>

FormHandlers == {"app", "corrected"}

\* the outcome kinds
Outcome(h) ==
    CASE Did(h).via = "return"            -> "success"
      [] Did(h).via = "return 400"        -> "structural"
      [] Did(h).via = "except ValueError" -> "structural"
      [] Did(h).via = "except Exception"  -> "unclassified"

\* C1: a record that lacks expected names is rejected with a structural
\* error whose message lists exactly the lacking names, and the model is
\* not invoked
C1_MissingRejected ==
    \A h \in Handlers :
        Answered(h) /\ Incomplete =>
            /\ Did(h).calls = <<>>
            /\ IF h \in FormHandlers
               THEN /\ Did(h).resp.ctx.success = FALSE
                    /\ Did(h).resp.ctx.error =
                         "Input Error: Missing required columns: " \o Join(", ", Lacking)
               ELSE /\ Did(h).resp.status = 400
                    /\ Did(h).resp.json.success = FALSE
                    /\ Did(h).resp.json.error = "Missing columns: " \o Join(", ", Lacking)

C1_Witness ==
    /\ \A h \in Handlers : Answered(h)
    /\ Incomplete /\ Len(Lacking) >= 2 /\ Len(Lacking) < Len(EXPECTED_COLUMNS)
    /\ Keys(req.pairs)[1] # "customerID"

\* the submitted record cut down to the expected attributes, in their order
Canonical == [i \in 1..Len(EXPECTED_COLUMNS) |->
                <<EXPECTED_COLUMNS[i], Get(req.pairs, EXPECTED_COLUMNS[i])>>]

Alone(h) ==
    CASE h = "app"       -> predict_app(model, Canonical, fault)
      [] h = "corrected" -> predict_corrected(model, Canonical, fault)
      [] h = "api"       -> api_predict(model, [kind |-> "record", pairs |-> Canonical], fault)

Verdict(h, o) ==
    IF o.via # "return" THEN <<o.via>>
    ELSE IF h \in FormHandlers THEN <<o.resp.ctx.churn, o.resp.ctx.probability>>
    ELSE <<o.resp.json.churn_prediction, o.resp.json.confidence>>

\* C2: for a record with all expected names, the model is handed exactly the
\* expected attributes in the expected order with the submitted values,
\* whatever the order of the keys and whatever else was submitted; the
\* verdict is that of the record submitted in the expected order without
\* customerID and extra keys
C2_SelectedInOrder ==
    \A h \in Handlers :
        Answered(h) /\ Complete =>
            /\ Did(h).calls # <<>>
            /\ \A i \in 1..Len(Did(h).calls) : Did(h).calls[i].X = Canonical
            /\ Verdict(h, Did(h)) = Verdict(h, Alone(h))

C2_Witness ==
    /\ \A h \in Handlers : Answered(h) /\ Len(Did(h).calls) = 2
    /\ Complete
    /\ Keys(req.pairs)[1] = "promo"
    /\ HasKey(req.pairs, "customerID")

Half == ProbScale \div 2

AboveHalf == {Format2f(100 * p) : p \in (Half + 1)..ProbScale}
BelowHalf == {Format2f(100 * p) : p \in 0..(Half - 1)}
AtHalf == Format2f(100 * Half)

Label(h) == IF h \in FormHandlers THEN Did(h).resp.ctx.churn
            ELSE Did(h).resp.json.churn_prediction

\* the returned probability is above / below / at one half
Above(h) ==
    CASE h = "app"       -> Did(h).resp.ctx.prob_percentage > 100 * Half
      [] h = "corrected" -> Did(h).resp.ctx.probability \in AboveHalf
      [] h = "api"       -> Did(h).resp.json.churn_probability > Half
Below(h) ==
    CASE h = "app"       -> Did(h).resp.ctx.prob_percentage < 100 * Half
      [] h = "corrected" -> Did(h).resp.ctx.probability \in BelowHalf
      [] h = "api"       -> Did(h).resp.json.churn_probability < Half

\* C3 as stated: in a successful response the label is "Yes" exactly when the
\* returned probability is at least one half
C3_LabelIffAtLeastHalf ==
    \A h \in Handlers :
        Answered(h) /\ Did(h).via = "return" =>
            (Label(h) = "Yes" <=> ~Below(h))

\* C3 amended: in a successful response the label is "Yes" whenever the
\* returned probability is above one half and "No" whenever it is below; at
\* exactly one half the label is the one model.predict gives
C3_LabelAgreesOffHalf ==
    \A h \in Handlers :
        Answered(h) /\ Did(h).via = "return" =>
            /\ Label(h) \in {"Yes", "No"}
            /\ Above(h) => Label(h) = "Yes"
            /\ Below(h) => Label(h) = "No"

C3_Witness ==
    /\ \A h \in Handlers : Answered(h) /\ Did(h).via = "return"
    /\ \A h \in Handlers : ~Above(h) /\ ~Below(h) /\ Label(h) = "No"
    /\ Did("corrected").resp.ctx.probability = AtHalf

\* C5: a failure other than lacking names ends in the unclassified-failure
\* outcome with its traceback logged; the structural-validation outcome
\* occurs only when names are lacking
C5_OnlyMissingIsStructural ==
    \A h \in Handlers :
        Answered(h) =>
            /\ Outcome(h) = "structural" => Incomplete
            /\ Outcome(h) # "success" /\ ~Incomplete =>
                  /\ Outcome(h) = "unclassified"
                  /\ Len(Did(h).log) = 1
                  /\ Did(h).log[1].traceback.ok = FALSE

ApiSuccessFields == {"success", "customer_id", "churn_prediction", "churn_probability",
                     "confidence"}

\* C6: /api/predict answers every request either with 200, success=true, the
\* echoed customer id, a label, a probability and a confidence, or with 400
\* (names lacking) or 500 (any exception, a body that is no JSON object
\* included) and success=false with an error message
C6_ApiEnvelope ==
    Answered("api") =>
        LET r == Did("api").resp IN
        \/ /\ r.status = 200
           /\ DOMAIN r.json = ApiSuccessFields
           /\ r.json.success = TRUE
           /\ r.json.customer_id = PopValue(req.pairs, "customerID")
           /\ r.json.churn_prediction \in {"Yes", "No"}
           /\ r.json.churn_probability \in 0..ProbScale
           /\ r.json.confidence = Format2f(100 * r.json.churn_probability)
           /\ Complete
        \/ /\ r.status = 400
           /\ DOMAIN r.json = {"error", "success"}
           /\ r.json.success = FALSE
           /\ Incomplete
        \/ /\ r.status = 500
           /\ DOMAIN r.json = {"error", "success"}
           /\ r.json.success = FALSE
           /\ ~Incomplete
           /\ Did("api").via = "except Exception"

C6_Witness ==
    /\ Answered("api")
    /\ req.kind = "array"
    /\ Did("api").resp.status = 500
    /\ Did("api").resp.json.success = FALSE

\* the categorical columns of the request whose value was not learned
UnseenColumns ==
    {i \in 1..Len(cat_attribs) :
        Get(req.pairs, cat_attribs[i]) \notin Range(categories(cat_attribs[i]))}

NumbersParse ==
    \A i \in 1..Len(num_attribs) : ParseFloat(Get(req.pairs, num_attribs[i])).ok

Probability(h) == IF h = "app" THEN Did(h).resp.ctx.prob_percentage \div 100
                  ELSE Did(h).resp.json.churn_probability

C9_VariantsAgree ==
    /\ Answered("app") /\ Answered("corrected") =>
          /\ Outcome("app") = Outcome("corrected")
          /\ Outcome("app") = "success" =>
                /\ Did("app").resp.ctx.churn = Did("corrected").resp.ctx.churn
                /\ Did("app").resp.ctx.probability = Did("corrected").resp.ctx.probability
                /\ Did("app").resp.ctx.customer_id = Did("corrected").resp.ctx.customer_id
                /\ Did("app").resp.ctx.data = Did("corrected").resp.ctx.data
    /\ \A h \in FormHandlers :
          Answered(h) /\ Answered("api") => Outcome("api") = Outcome(h)

-----------------------------------------------------------------------------
(* The rendering stage of app.py over every probability *)

IdleService ==
    /\ model = Artifact(0) /\ req = NoRequest /\ fault = "none"
    /\ out = [h \in Handlers |-> <<>>]

InitTier ==
    /\ prob \in 0..ProbScale
    /\ rendered = <<>>
    /\ IdleService /\ IdleConc /\ IdleMain

\* lines 66-91 on the probability predict_proba returned and either class
Render ==
    /\ rendered = <<>>
    /\ \E prediction \in {0, 1} :
          rendered' = <<Render_app(prediction, prob, None, <<>>)>>
    /\ UNCHANGED <<model, req, fault, out, prob, threads, files, run, hist>>

NextTier == Render

SpecTier == InitTier /\ [][NextTier]_vars

\* C4: the tier is "low" iff p < 30%, "medium" iff 30% <= p < 50%, "high" iff
\* 50% <= p < 70%, "very-high" iff p >= 70%: one tier for every p in
\* [0%, 100%], each boundary in the higher tier
C4_RiskTiers ==
    rendered # <<>> =>
        LET level == rendered[1].ctx.risk_level
            pct == 100 * prob       \* the percentage, in 1/ProbScale of a percent
        IN  /\ level \in {"low", "medium", "high", "very-high"}
            /\ level = "low" <=> pct < 30 * ProbScale
            /\ level = "medium" <=> (30 * ProbScale <= pct /\ pct < 50 * ProbScale)
            /\ level = "high" <=> (50 * ProbScale <= pct /\ pct < 70 * ProbScale)
            /\ level = "very-high" <=> pct >= 70 * ProbScale
            /\ rendered[1].ctx.prob_percentage = pct

C4_Witness ==
    /\ rendered # <<>>
    /\ 100 * prob = 30 * ProbScale
    /\ rendered[1].ctx.risk_level = "medium"
    /\ rendered[1].ctx.probability = "30.00%"

-----------------------------------------------------------------------------
(* The service under concurrent requests: each handler runs statement by      *)
(* statement on its own locals; the statements of different requests          *)
(* interleave.  The module-level model is the one object they share.          *)

ConcSubmissions ==
    {[r |-> Record({}, Base, TRUE, TRUE, 1), f |-> "none"],
     [r |-> Record({"gender", "tenure"}, Base, TRUE, FALSE, 0), f |-> "none"],
     [r |-> Record({}, [Base EXCEPT !["tenure"] = "abc"], TRUE, FALSE, 0), f |-> "none"],
     [r |-> [kind |-> "null", pairs |-> <<>>], f |-> "none"]}

IdleThread ==
    [pc |-> "idle", h |-> "app", req |-> NoRequest, fault |-> "none",
     customer_id |-> None, data |-> <<>>, input_df |-> <<>>,
     prediction |-> 0, probability |-> 0, calls |-> <<>>, result |-> <<>>]

RefitOnPredict(m) == [m EXCEPT !.intercept = 1 - m.intercept]

\* the module-level model after a handler's statement: no handler assigns it,
\* and predict / predict_proba leave the estimator as it was
ModelAfter(m) == m

Except(h, e, calls) ==
    CASE h = "app"       -> Except_app(e, calls)
      [] h = "corrected" -> Except_corrected(e, calls)
      [] h = "api"       -> Except_api(e, calls)

Finish(t, result) ==
    threads' = [threads EXCEPT ![t].pc = "done", ![t].result = <<result>>]

InitConc ==
    /\ model = Artifact(0)
    /\ threads = [t \in 1..NumThreads |-> IdleThread]
    /\ req = NoRequest /\ fault = "none" /\ out = [h \in Handlers |-> <<>>]
    /\ IdleTier /\ IdleMain

\* the server hands a request to a free thread
Arrive(t) ==
    /\ threads[t].pc = "idle"
    /\ \E s \in ConcSubmissions, h \in Handlers :
          /\ h \in Routes(s.r)
          /\ threads' = [threads EXCEPT ![t] =
                            [IdleThread EXCEPT !.pc = "parse", !.h = h,
                                               !.req = s.r, !.fault = s.f]]
    /\ UNCHANGED <<model, req, fault, out, prob, rendered, files, run, hist>>

\* request.form.to_dict() / request.get_json(), then pop('customerID', None)
Parse(t) ==
    LET me == threads[t] IN
    /\ me.pc = "parse"
    /\ IF me.h = "api" /\ ~GetJson(me.req).ok
       THEN Finish(t, Except_api(GetJson(me.req), <<>>))
       ELSE threads' = [threads EXCEPT ![t].pc = "validate",
                                       ![t].customer_id = PopValue(me.req.pairs, "customerID"),
                                       ![t].data = PopRest(me.req.pairs, "customerID")]
    /\ model' = ModelAfter(model)
    /\ UNCHANGED <<req, fault, out, prob, rendered, files, run, hist>>

\* missing_columns and the raise / return 400
Validate(t) ==
    LET me == threads[t]
        missing == missing_columns(Keys(me.data))
    IN
    /\ me.pc = "validate"
    /\ IF missing = <<>>
       THEN threads' = [threads EXCEPT ![t].pc = "select"]
       ELSE IF me.h = "api"
       THEN Finish(t, [resp |-> ApiMissing(missing), calls |-> <<>>, log |-> <<>>,
                       via |-> "return 400"])
       ELSE Finish(t, Except(me.h, MissingError(missing), <<>>))
    /\ model' = ModelAfter(model)
    /\ UNCHANGED <<req, fault, out, prob, rendered, files, run, hist>>

\* input_df = input_df[EXPECTED_COLUMNS]
Select(t) ==
    LET me == threads[t] IN
    /\ me.pc = "select"
    /\ threads' = [threads EXCEPT ![t].pc = "predict", ![t].input_df = SelectExpected(me.data)]
    /\ model' = ModelAfter(model)
    /\ UNCHANGED <<req, fault, out, prob, rendered, files, run, hist>>

\* prediction = model.predict(input_df)[0]
CallPredict(t) ==
    LET me == threads[t]
        r == Predict(model, me.input_df, me.fault)
        calls == Append(me.calls, [op |-> "predict", X |-> me.input_df])
    IN
    /\ me.pc = "predict"
    /\ IF r.ok
       THEN threads' = [threads EXCEPT ![t].pc = "predict_proba", ![t].prediction = r.val,
                                       ![t].calls = calls]
       ELSE Finish(t, Except(me.h, r, calls))
    /\ model' = ModelAfter(model)
    /\ UNCHANGED <<req, fault, out, prob, rendered, files, run, hist>>

\* probability = model.predict_proba(input_df)[0][1]
CallPredictProba(t) ==
    LET me == threads[t]
        r == PredictProba(model, me.input_df, me.fault)
        calls == Append(me.calls, [op |-> "predict_proba", X |-> me.input_df])
    IN
    /\ me.pc = "predict_proba"
    /\ IF r.ok
       THEN threads' = [threads EXCEPT ![t].pc = "format", ![t].probability = r.val,
                                       ![t].calls = calls]
       ELSE Finish(t, Except(me.h, r, calls))
    /\ model' = ModelAfter(model)
    /\ UNCHANGED <<req, fault, out, prob, rendered, files, run, hist>>

\* the label, the formatting and the return
Format(t) ==
    LET me == threads[t]
        resp == CASE me.h = "app" ->
                       Render_app(me.prediction, me.probability, me.customer_id, me.data)
                  [] me.h = "corrected" ->
                       Render_corrected(me.prediction, me.probability, me.customer_id, me.data)
                  [] me.h = "api" ->
                       Render_api(me.prediction, me.probability, me.customer_id)
    IN
    /\ me.pc = "format"
    /\ Finish(t, [resp |-> resp, calls |-> me.calls, log |-> <<>>, via |-> "return"])
    /\ model' = ModelAfter(model)
    /\ UNCHANGED <<req, fault, out, prob, rendered, files, run, hist>>

\* the response is sent and the thread is free again
Send(t) ==
    /\ threads[t].pc = "done"
    /\ threads' = [threads EXCEPT ![t] = IdleThread]
    /\ UNCHANGED <<model, req, fault, out, prob, rendered, files, run, hist>>

NextConc ==
    \E t \in 1..NumThreads :
        \/ Arrive(t)
        \/ Parse(t)
        \/ Validate(t)
        \/ Select(t)
        \/ CallPredict(t)
        \/ CallPredictProba(t)
        \/ Format(t)
        \/ Send(t)

SpecConc == InitConc /\ [][NextConc]_vars

\* what each handler answers to each submission when it is the only request
\* the process ever serves
HandledAlone ==
    [h \in Handlers, s \in ConcSubmissions |->
        CASE h = "app"       -> predict_app(Artifact(0), s.r.pairs, s.f)
          [] h = "corrected" -> predict_corrected(Artifact(0), s.r.pairs, s.f)
          [] h = "api"       -> api_predict(Artifact(0), s.r, s.f)]

\* C8: the model is the one loaded at start-up in every state, and whatever
\* the interleaving, a finished request holds the response, model calls and
\* log it would have had alone
C8_RequestsIndependent ==
    /\ model = Artifact(0)
    /\ \A t \in 1..NumThreads :
          threads[t].pc = "done" =>
              threads[t].result =
                  <<HandledAlone[threads[t].h, [r |-> threads[t].req, f |-> threads[t].fault]]>>

C8_Witness ==
    /\ \A t \in 1..NumThreads : threads[t].pc = "done" /\ threads[t].h = "app"
    /\ threads[1].result[1].via = "return"
    /\ threads[2].result[1].via = "except ValueError"
    /\ threads[2].result[1].calls # <<>>

-----------------------------------------------------------------------------
(* src/main.py, run after run in one working directory.  files maps the       *)
(* names of the files present to their contents.                              *)

MODEL_FILE == "model.pkl"
TRAIN_CSV == "WA_Fn-UseC_-Telco-Customer-Churn.csv"
TEST_CSV == "test_customers.csv"
OUT_CSV == "test_customers_with_predictions.csv"

\* a labeled dataset; b stands for what its rows make of the fit
Dataset(b) == [dataset |-> b]

\* the rows of test_customers.csv
TestRows ==
    << SelectExpected(Record({}, Base, FALSE, FALSE, 0).pairs),
       SelectExpected(Record({}, [Base EXCEPT !["Contract"] = "Two year",
                                              !["TotalCharges"] = "nan"],
                             FALSE, FALSE, 0).pairs) >>

Put(fs, name, content) ==
    [n \in DOMAIN fs \cup {name} |-> IF n = name THEN content ELSE fs[n]]

ExistsNever(fs, name) == FALSE

\* os.path.exists(name)
Exists(fs, name) == name \in DOMAIN fs

\* final_model.fit(train_features, train_labels)
Fit(csv) == Artifact(csv.dataset)

\* lines 100-109: the three appended columns of one row
Predicted(m, row) ==
    row \o << <<"Churn_Prediction", Predict(m, row, "none").val>>,
              <<"Churn_Probability", PredictProba(m, row, "none").val>>,
              <<"Churn_Label", churn_label(Predict(m, row, "none").val)>> >>

NoRun == <<>>

InitMain ==
    /\ \E present \in SUBSET {TRAIN_CSV, TEST_CSV} :
       \E pkl \in {<<>>} \cup {<<a>> : a \in Artifacts} :
          files = [n \in present \cup (IF pkl = <<>> THEN {} ELSE {MODEL_FILE}) |->
                      CASE n = TRAIN_CSV  -> Dataset(0)
                        [] n = TEST_CSV   -> TestRows
                        [] n = MODEL_FILE -> pkl[1]]
    /\ run = NoRun
    /\ hist = [runs |-> 0, dumps |-> 0, trained |-> FALSE,
               preexisting |-> Exists(files, MODEL_FILE)]
    /\ IdleService /\ IdleTier /\ IdleConc

\* python main.py: line 38 decides between the two phases
Start ==
    /\ run = NoRun
    /\ hist.runs < MaxRuns
    /\ run' = <<[pc |-> IF Exists(files, MODEL_FILE) THEN "load" ELSE "read_train",
                 found |-> MODEL_FILE \in DOMAIN files,
                 before |-> IF MODEL_FILE \in DOMAIN files THEN <<files[MODEL_FILE]>> ELSE <<>>,
                 phase |-> IF Exists(files, MODEL_FILE) THEN "inference" ELSE "training",
                 wrote |-> {},
                 value |-> <<>>]>>
    /\ UNCHANGED <<files, hist, model, req, fault, out, prob, rendered, threads>>

\* line 40: pd.read_csv raises when the dataset is not there
ReadTrain ==
    /\ run # NoRun /\ run[1].pc = "read_train"
    /\ run' = IF Exists(files, TRAIN_CSV)
              THEN <<[run[1] EXCEPT !.pc = "fit", !.value = <<files[TRAIN_CSV]>>]>>
              ELSE <<[run[1] EXCEPT !.pc = "crashed"]>>
    /\ UNCHANGED <<files, hist, model, req, fault, out, prob, rendered, threads>>

\* lines 42-86: conversions, split, fit
FitModel ==
    /\ run # NoRun /\ run[1].pc = "fit"
    /\ run' = <<[run[1] EXCEPT !.pc = "dump", !.value = <<Fit(run[1].value[1])>>]>>
    /\ UNCHANGED <<files, hist, model, req, fault, out, prob, rendered, threads>>

\* lines 89-91: joblib.dump(final_model, MODEL_FILE), then the run ends
Dump ==
    /\ run # NoRun /\ run[1].pc = "dump"
    /\ files' = Put(files, MODEL_FILE, run[1].value[1])
    /\ run' = <<[run[1] EXCEPT !.pc = "done", !.wrote = @ \cup {MODEL_FILE}]>>
    /\ hist' = [hist EXCEPT !.dumps = @ + 1]
    /\ UNCHANGED <<model, req, fault, out, prob, rendered, threads>>

\* line 96: model = joblib.load(MODEL_FILE)
Load ==
    /\ run # NoRun /\ run[1].pc = "load"
    /\ run' = <<[run[1] EXCEPT !.pc = "read_test", !.value = <<files[MODEL_FILE]>>]>>
    /\ UNCHANGED <<files, hist, model, req, fault, out, prob, rendered, threads>>

\* lines 98-109: read test_customers.csv (it may not be there), predict, label
PredictBatch ==
    /\ run # NoRun /\ run[1].pc = "read_test"
    /\ run' = IF Exists(files, TEST_CSV)
              THEN <<[run[1] EXCEPT !.pc = "to_csv",
                         !.value = <<[i \in 1..Len(files[TEST_CSV]) |->
                                        Predicted(run[1].value[1], files[TEST_CSV][i])]>>]>>
              ELSE <<[run[1] EXCEPT !.pc = "crashed"]>>
    /\ UNCHANGED <<files, hist, model, req, fault, out, prob, rendered, threads>>

\* lines 111-114: test_data.to_csv(...)
WriteCsv ==
    /\ run # NoRun /\ run[1].pc = "to_csv"
    /\ files' = Put(files, OUT_CSV, run[1].value[1])
    /\ run' = <<[run[1] EXCEPT !.pc = "done", !.wrote = @ \cup {OUT_CSV}]>>
    /\ UNCHANGED <<hist, model, req, fault, out, prob, rendered, threads>>

\* the process exits, normally or on the uncaught exception
Exit ==
    /\ run # NoRun /\ run[1].pc \in {"done", "crashed"}
    /\ run' = NoRun
    /\ hist' = [hist EXCEPT !.runs = @ + 1,
                            !.trained = @ \/ (run[1].pc = "done" /\ run[1].phase = "training")]
    /\ UNCHANGED <<files, model, req, fault, out, prob, rendered, threads>>

\* between runs somebody puts an input file in place
Provide ==
    /\ run = NoRun
    /\ \/ ~Exists(files, TRAIN_CSV) /\ files' = Put(files, TRAIN_CSV, Dataset(1))
       \/ ~Exists(files, TEST_CSV) /\ files' = Put(files, TEST_CSV, TestRows)
    /\ UNCHANGED <<run, hist, model, req, fault, out, prob, rendered, threads>>

NextMain ==
    \/ Start \/ ReadTrain \/ FitModel \/ Dump
    \/ Load \/ PredictBatch \/ WriteCsv
    \/ Exit \/ Provide

SpecMain == InitMain /\ [][NextMain]_vars

\* C10: a run that ends normally has trained and written model.pkl iff the
\* file was not there when it started; a run that found it does inference
\* only, writes nothing but the predictions file and leaves model.pkl as it
\* was; model.pkl is written at most once; an inference run has a completed
\* training run or a pre-existing artifact before it
C10_TrainOnce ==
    /\ hist.dumps <= 1
    /\ run # NoRun =>
          LET r == run[1] IN
          /\ r.phase = "training" <=> ~r.found
          /\ r.pc = "done" => (MODEL_FILE \in r.wrote <=> ~r.found)
          /\ r.found =>
                /\ r.phase = "inference"
                /\ r.wrote \subseteq {OUT_CSV}
                /\ MODEL_FILE \in DOMAIN files
                /\ <<files[MODEL_FILE]>> = r.before
                /\ r.pc = "done" => r.wrote = {OUT_CSV}
                /\ hist.trained \/ hist.preexisting
          /\ ~r.found /\ r.pc # "done" => MODEL_FILE \notin DOMAIN files

C10_Witness ==
    /\ hist.dumps = 1 /\ hist.trained /\ ~hist.preexisting
    /\ hist.runs = 2
    /\ run # NoRun /\ run[1].pc = "done" /\ run[1].phase = "inference"
    /\ OUT_CSV \in DOMAIN files

=============================================================================
